---- MODULE Spec2Model ----
(***************************************************************************)
(* plexarr/utils.py: gen_xmltv_xml (XMLTV guide generator) and             *)
(* m3u_to_json (M3U playlist parser), as state machines.                   *)
(*                                                                         *)
(* Text is a sequence of tokens.  A token is either a single character     *)
(* ("0", ",", the double quote, the newline) or a literal of several       *)
(* characters that the code's templates and regular expressions treat as   *)
(* a unit ("#EXTINF:", "tvg-id=", "<channel id=").  A record (a Python     *)
(* dict read through .values()) is the sequence of its values in           *)
(* insertion order.                                                        *)
(***************************************************************************)
EXTENDS Integers, Sequences, FiniteSets, TLC

VARIABLES
    call,          \* which function runs: "gen" or "m3u"
    pc,            \* position in the running function
    err,           \* the exception raised, "" when none
    result,        \* the returned value, None before the return
    channels,      \* gen_xmltv_xml argument
    programs,      \* gen_xmltv_xml argument
    url,           \* gen_xmltv_xml argument
    xml_header,    \* gen_xmltv_xml local
    xml_channels,  \* gen_xmltv_xml local
    xml_programs,  \* gen_xmltv_xml local
    ci,            \* index of the next channel of the for loop
    pi,            \* index of the next program of the for loop
    src,           \* m3u_to_json argument
    temp,          \* m3u_to_json local: the lines
    temp_info,     \* m3u_to_json local: the header line
    data,          \* m3u_to_json local: the document under construction
    streams,       \* m3u_to_json local
    li,            \* index of the next line pair of the for loop
    fields         \* auxiliary, never read by the code: the fields the first
                   \* line pair of src was written from

vars == <<call, pc, err, result, channels, programs, url, xml_header,
          xml_channels, xml_programs, ci, pi, src, temp, temp_info, data,
          streams, li, fields>>

genVars == <<channels, programs, url, xml_header, xml_channels, xml_programs, ci, pi>>

m3uVars == <<src, temp, temp_info, data, streams, li, fields>>

None == <<"None">>

\* the value of fields for a source text that was not written from fields
NoFields == [segs |-> <<>>, name |-> None, url |-> <<>>, written |-> FALSE]

NL == "\n"

Q == "\""

----------------------------------------------------------------------------
(* Generic helpers on sequences                                            *)

RECURSIVE Concat(_)
Concat(ss) ==
    IF ss = <<>> THEN <<>> ELSE Head(ss) \o Concat(Tail(ss))

SeqsUpTo(S, n) == UNION {[1..k -> S] : k \in 0..n}

Positions(s, t) == SelectSeq([i \in 1..Len(s) |-> i], LAMBDA i : s[i] = t)

Range(s) == {s[i] : i \in 1..Len(s)}

----------------------------------------------------------------------------
(* gen_xmltv_xml                                                           *)

\* furl(url).origin: scheme://host[:port], without path, query or fragment
Origin(u) ==
    <<u.scheme, "://", u.host>> \o (IF u.port = "" THEN <<>> ELSE <<":", u.port>>)

XmlHeader(u) ==
    <<"<?xml version=\"1.0\" encoding=\"utf-8\" ?>", NL,
      "<!DOCTYPE tv SYSTEM \"xmltv.dtd\">", NL,
      "<tv generator-info-name=\"IPTV\" generator-info-url=\"">>
    \o Origin(u) \o <<"\">", NL>>

\* faulty variant: the unpacking accepts a record of any arity
ChannelUnpackOK_AnyArity(channel) == TRUE

\* tvg_id, tvg_name, tvg_logo, epg_desc = channel.values()
ChannelUnpackOK(channel) == Len(channel) = 4

\* the f-string appended to xml_channels for one channel
ChannelXml(channel) ==
    LET tvg_id == channel[1]
        tvg_name == channel[2]
        tvg_logo == channel[3]
    IN  <<"    ", "<channel id=\"", tvg_id, "\">", NL,
          "        ", "<display-name>", tvg_name, "</display-name>", NL,
          "        ", "<icon src=\"", tvg_logo, "\"/>", NL,
          "    ", "</channel>", NL>>

\* the unpacking of program.values() in either branch of the if
ProgramUnpackOK(program) ==
    IF Len(program) = 5 THEN TRUE ELSE Len(program) = 6

\* the f-string appended to xml_programs for one program; each of its four
\* lines ends with an apostrophe before the line break
ProgramXml(program) ==
    LET tvg_id == program[1]
        epg_title == program[2]
        epg_start == program[3]
        epg_stop == program[4]
        epg_desc == program[5]
    IN  <<"    ", "<programme channel=\"", tvg_id, "\" start=\"", epg_start,
          "\" stop=\"", epg_stop, "\">", "'", NL,
          "        ", "<title lang=\"en\">", epg_title, "</title>", "'", NL,
          "        ", "<desc lang=\"en\">", epg_desc, "</desc>", "'", NL,
          "    ", "</programme>", "'", NL>>

XmlFooter == <<"</tv>", NL>>

\* faulty variant: the programmes are put before the channels
Xmltv_ProgramsFirst(header, chans, progs, footer) == header \o progs \o chans \o footer

Xmltv(header, chans, progs, footer) == header \o chans \o progs \o footer

GenHeader ==
    /\ call = "gen" /\ pc = "g_header"
    /\ xml_header' = XmlHeader(url)
    /\ xml_channels' = <<>>
    /\ ci' = 1
    /\ pc' = "g_channels"
    /\ UNCHANGED <<call, err, result, channels, programs, url, xml_programs, pi>>
    /\ UNCHANGED m3uVars

GenChannel ==
    /\ call = "gen" /\ pc = "g_channels" /\ ci <= Len(channels)
    /\ IF ChannelUnpackOK(channels[ci])
       THEN /\ xml_channels' = xml_channels \o ChannelXml(channels[ci])
            /\ ci' = ci + 1
            /\ UNCHANGED <<pc, err>>
       ELSE /\ pc' = "raised"
            /\ err' = "ValueError"
            /\ UNCHANGED <<xml_channels, ci>>
    /\ UNCHANGED <<call, result, channels, programs, url, xml_header, xml_programs, pi>>
    /\ UNCHANGED m3uVars

GenChannelsDone ==
    /\ call = "gen" /\ pc = "g_channels" /\ ci > Len(channels)
    /\ xml_programs' = <<>>
    /\ pi' = 1
    /\ pc' = "g_programs"
    /\ UNCHANGED <<call, err, result, channels, programs, url, xml_header, xml_channels, ci>>
    /\ UNCHANGED m3uVars

GenProgram ==
    /\ call = "gen" /\ pc = "g_programs" /\ pi <= Len(programs)
    /\ IF ProgramUnpackOK(programs[pi])
       THEN /\ xml_programs' = xml_programs \o ProgramXml(programs[pi])
            /\ pi' = pi + 1
            /\ UNCHANGED <<pc, err>>
       ELSE /\ pc' = "raised"
            /\ err' = "ValueError"
            /\ UNCHANGED <<xml_programs, pi>>
    /\ UNCHANGED <<call, result, channels, programs, url, xml_header, xml_channels, ci>>
    /\ UNCHANGED m3uVars

GenReturn ==
    /\ call = "gen" /\ pc = "g_programs" /\ pi > Len(programs)
    /\ result' = Xmltv(xml_header, xml_channels, xml_programs, XmlFooter)
    /\ pc' = "returned"
    /\ UNCHANGED <<call, err>>
    /\ UNCHANGED genVars
    /\ UNCHANGED m3uVars

\* Inputs of gen_xmltv_xml
MaxChannels == 2

MaxPrograms == 2

ChannelRecs ==
    { <<"1", "BBC", "http://x/logo.png", "chan-desc-1">>,
      <<"2", "CNN", "http://x/cnn.png", "chan-desc-2">>,
      <<"3", "ITV", "http://x/itv.png">>,
      <<"4", "RAI", "http://x/rai.png", "chan-desc-4", "extra">> }

ProgramRecs ==
    { <<"1", "News", "20240101060000", "20240101070000", "prog-desc-1">>,
      <<"2", "Film", "20240101070000", "20240101090000", "prog-desc-2", "http://x/icon.png">>,
      <<"1", "News", "20240101060000", "20240101070000", "prog-desc-1", "http://x/icon1.png">>,
      <<"3", "Quiz", "20240101090000", "20240101100000">>,
      <<"4", "Show", "20240101100000", "20240101110000", "prog-desc-4", "http://x/i4.png", "extra">> }

Urls ==
    { [scheme |-> "http", host |-> "host", port |-> "8080", path |-> "/"],
      [scheme |-> "https", host |-> "epg.example", port |-> "", path |-> "/guide?x=1"] }

InitGen ==
    /\ call = "gen" /\ pc = "g_header" /\ err = "" /\ result = None
    /\ channels \in SeqsUpTo(ChannelRecs, MaxChannels)
    /\ programs \in SeqsUpTo(ProgramRecs, MaxPrograms)
    /\ url \in Urls
    /\ xml_header = <<>> /\ xml_channels = <<>> /\ xml_programs = <<>>
    /\ ci = 0 /\ pi = 0
    /\ src = <<>> /\ temp = <<>> /\ temp_info = <<>> /\ data = <<>>
    /\ streams = <<>> /\ li = 0 /\ fields = NoFields

NextGen == GenHeader \/ GenChannel \/ GenChannelsDone \/ GenProgram \/ GenReturn

SpecGen == InitGen /\ [][NextGen]_vars

----------------------------------------------------------------------------
(* Regular expressions (Python re), on token sequences                     *)
(*                                                                         *)
(* A regular expression without alternation is a sequence of items; an     *)
(* item is a class of tokens and a quantifier: "1", "+" or "*" (both       *)
(* greedy).  Matching backtracks as Python's does: a quantified item takes *)
(* the longest run first and gives tokens back one at a time.              *)

Digits == {"0", "1"}

\* the tokens that stand for one character; every other token stands for
\* two or more characters, none of them a digit, a quote, a comma or a
\* line break
SingleChars == Digits \cup {Q, ",", " ", "-", ".", ":", "/", "u", "w", NL}

Lit(t) == [cls |-> "lit", tok |-> t, q |-> "1"]

Cls(c, quant) == [cls |-> c, tok |-> "", q |-> quant]

InClass(it, t) ==
    CASE it.cls = "lit" -> t = it.tok
      [] it.cls = "digit" -> t \in Digits                \* \d
      [] it.cls = "dot" -> t # NL                        \* . under + or *
      [] it.cls = "dot1" -> t # NL /\ t \in SingleChars  \* . exactly once
      [] it.cls = "notquote" -> t # Q                    \* [^"]
      [] it.cls = "notcomma" -> t # ","                  \* [^,], in a faulty variant

RECURSIVE RunLen(_, _, _)
RunLen(it, text, pos) ==
    IF pos <= Len(text) /\ InClass(it, text[pos])
    THEN 1 + RunLen(it, text, pos + 1)
    ELSE 0

Fail == <<-1>>

\* MatchFrom(re, k, text, pos): items k.. of re matched at pos; the position
\* after each of them, or Fail
RECURSIVE MatchFrom(_, _, _, _)
RECURSIVE TryGreedy(_, _, _, _, _, _)
MatchFrom(re, k, text, pos) ==
    IF k > Len(re) THEN <<>>
    ELSE IF re[k].q = "1"
         THEN IF pos <= Len(text) /\ InClass(re[k], text[pos])
              THEN LET r == MatchFrom(re, k + 1, text, pos + 1)
                   IN  IF r = Fail THEN Fail ELSE <<pos + 1>> \o r
              ELSE Fail
         ELSE TryGreedy(re, k, text, pos, RunLen(re[k], text, pos),
                        IF re[k].q = "+" THEN 1 ELSE 0)

TryGreedy(re, k, text, pos, n, min) ==
    IF n < min THEN Fail
    ELSE LET r == MatchFrom(re, k + 1, text, pos + n)
         IN  IF r # Fail THEN <<pos + n>> \o r
             ELSE TryGreedy(re, k, text, pos, n - 1, min)

\* re.search: the match at the leftmost position that has one
RECURSIVE ReSearchFrom(_, _, _)
ReSearchFrom(re, text, pos) ==
    IF pos > Len(text) + 1 THEN [start |-> 0, ends |-> Fail]
    ELSE LET r == MatchFrom(re, 1, text, pos)
         IN  IF r # Fail THEN [start |-> pos, ends |-> r]
             ELSE ReSearchFrom(re, text, pos + 1)

ReSearch(re, text) == ReSearchFrom(re, text, 1)

----------------------------------------------------------------------------
(* m3u_to_json                                                             *)

\* str.splitlines, for the line break "\n"
RECURSIVE SplitLines(_)
SplitLines(text) ==
    IF text = <<>> THEN <<>>
    ELSE LET brk == Positions(text, NL)
         IN  IF brk = <<>> THEN <<text>>
             ELSE <<SubSeq(text, 1, brk[1] - 1)>>
                    \o SplitLines(SubSeq(text, brk[1] + 1, Len(text)))

\* faulty variant: the pattern does not ask for the closing quote of x-tvg-url
RegexInfo_NoClosingQuote ==
    <<Lit("#EXTM3U"), Lit(" url-tvg="), Lit(Q), Cls("dot", "*"),
      Lit(Q), Lit(" x-tvg-url="), Lit(Q), Cls("dot", "*")>>

\* regex_info = r'#EXTM3U url-tvg="(?P<url_tvg>.*)" x-tvg-url="(?P<x_tvg_url>.*)"'
RegexInfo ==
    <<Lit("#EXTM3U"), Lit(" url-tvg="), Lit(Q), Cls("dot", "*"),
      Lit(Q), Lit(" x-tvg-url="), Lit(Q), Cls("dot", "*"), Lit(Q)>>

\* faulty variant: the two groups are stored under each other's name
InfoGroups_Swapped(line) ==
    LET m == ReSearch(RegexInfo, line)
    IN  IF m.start = 0 THEN [matched |-> FALSE]
        ELSE [matched |-> TRUE,
              groupdict |-> [url_tvg |-> SubSeq(line, m.ends[7], m.ends[8] - 1),
                             x_tvg_url |-> SubSeq(line, m.ends[3], m.ends[4] - 1)]]

\* re.search(regex_info, temp_info): whether there is a match, and its
\* groupdict()
InfoGroups(line) ==
    LET m == ReSearch(RegexInfo, line)
    IN  IF m.start = 0 THEN [matched |-> FALSE]
        ELSE [matched |-> TRUE,
              groupdict |-> [url_tvg |-> SubSeq(line, m.ends[3], m.ends[4] - 1),
                             x_tvg_url |-> SubSeq(line, m.ends[7], m.ends[8] - 1)]]

\* the six quoted attributes of regex_stream, in the order of its alternatives
AttrKeys ==
    <<[lit |-> "channelID=", key |-> "channelID"],
      [lit |-> "tvg-chno=", key |-> "tvg_chno"],
      [lit |-> "tvg-name=", key |-> "tvg_name"],
      [lit |-> "tvg-id=", key |-> "tvg_id"],
      [lit |-> "tvg-logo=", key |-> "tvg_logo"],
      [lit |-> "group-title=", key |-> "group_title"]>>

\* faulty variant: the value is matched by .+ in place of [^"]+
AttrAlt_Greedy(a) ==
    [key |-> a.key, lo |-> 2, hi |-> 1,
     re |-> <<Lit(a.lit), Lit(Q), Cls("dot", "+"), Lit(Q)>>]

AttrAlt(a) ==
    [key |-> a.key, lo |-> 2, hi |-> 1,
     re |-> <<Lit(a.lit), Lit(Q), Cls("notquote", "+"), Lit(Q)>>]

\* [#]EXTINF:(?P<ext_inf>\d+)
ExtInfAlt ==
    [key |-> "ext_inf", lo |-> 1, hi |-> 0,
     re |-> <<Lit("#EXTINF:"), Cls("digit", "+")>>]

\* faulty variant: the name stops at the next comma, as [^,]* would
ChanNameAlt_ToNextComma ==
    [key |-> "chan_name", lo |-> 1, hi |-> 0,
     re |-> <<Lit(","), Cls("notcomma", "*")>>]

\* ,(?P<chan_name>.*)
ChanNameAlt ==
    [key |-> "chan_name", lo |-> 1, hi |-> 0,
     re |-> <<Lit(","), Cls("dot", "*")>>]

\* (?P<stream_url>(http://\d+.\d+.\d+.\d+\:\d+/stream/.*))
StreamUrlAlt ==
    [key |-> "stream_url", lo |-> 0, hi |-> 0,
     re |-> <<Lit("http://"), Cls("digit", "+"), Cls("dot1", "1"),
              Cls("digit", "+"), Cls("dot1", "1"), Cls("digit", "+"),
              Cls("dot1", "1"), Cls("digit", "+"), Lit(":"),
              Cls("digit", "+"), Lit("/stream/"), Cls("dot", "*")>>]

\* regex_stream: the alternatives in the order they are tried; lo and hi are
\* the tokens of the match before and after the named group
RegexStream ==
    <<ExtInfAlt>> \o [i \in 1..Len(AttrKeys) |-> AttrAlt(AttrKeys[i])] \o <<ChanNameAlt, StreamUrlAlt>>

\* the first alternative that matches at pos: [alt, end], alt = 0 when none
RECURSIVE FirstAlt(_, _, _, _)
FirstAlt(alts, a, text, pos) ==
    IF a > Len(alts) THEN [alt |-> 0, end |-> pos]
    ELSE LET r == MatchFrom(alts[a].re, 1, text, pos)
         IN  IF r # Fail THEN [alt |-> a, end |-> r[Len(r)]]
             ELSE FirstAlt(alts, a + 1, text, pos)

\* the dict comprehension over r_stream.finditer(line): the matches from
\* left to right, each non-empty group stored under its name, a later match
\* replacing an earlier value of the same key
RECURSIVE FindIter(_, _, _, _)
FindIter(alts, text, pos, entry) ==
    IF pos > Len(text) THEN entry
    ELSE LET m == FirstAlt(alts, 1, text, pos)
         IN  IF m.alt = 0 THEN FindIter(alts, text, pos + 1, entry)
             ELSE LET v == SubSeq(text, pos + alts[m.alt].lo,
                                  m.end - 1 - alts[m.alt].hi)
                  IN  FindIter(alts, text, m.end,
                               IF v = <<>> THEN entry
                               ELSE (alts[m.alt].key :> v) @@ entry)

StreamEntry(line) == FindIter(RegexStream, line, 1, <<>>)

\* faulty variant: the pairs overlap, zip(temp[0::1], temp[1::1]) cut to the same length
PairTexts_Overlapping(lines) ==
    [i \in 1..(Len(lines) \div 2) |-> lines[i] \o <<NL>> \o lines[i + 1]]

\* list(map("\n".join, zip(temp[0::2], temp[1::2])))
PairTexts(lines) ==
    [i \in 1..(Len(lines) \div 2) |-> lines[2 * i - 1] \o <<NL>> \o lines[2 * i]]

\* json.dumps: the document, serialised
JsonDumps(d) == <<"json", d>>

M3uSplit ==
    /\ call = "m3u" /\ pc = "m_start"
    /\ LET lines == SplitLines(src)
       IN  IF lines = <<>>
           THEN /\ pc' = "raised"
                /\ err' = "IndexError"
                /\ UNCHANGED <<temp, temp_info>>
           ELSE /\ temp_info' = Head(lines)
                /\ temp' = Tail(lines)
                /\ pc' = "m_header"
                /\ UNCHANGED err
    /\ UNCHANGED <<call, result, src, data, streams, li, fields>>
    /\ UNCHANGED genVars

M3uHeader ==
    /\ call = "m3u" /\ pc = "m_header"
    /\ LET info == InfoGroups(temp_info)
       IN  IF ~info.matched
           THEN /\ pc' = "raised"
                /\ err' = "AttributeError"
                /\ UNCHANGED <<data, li>>
           ELSE /\ data' = info.groupdict
                /\ li' = 1
                /\ pc' = "m_pairs"
                /\ UNCHANGED err
    /\ UNCHANGED <<call, result, src, temp, temp_info, streams, fields>>
    /\ UNCHANGED genVars

M3uPair ==
    /\ call = "m3u" /\ pc = "m_pairs" /\ li <= Len(PairTexts(temp))
    /\ streams' = Append(streams, StreamEntry(PairTexts(temp)[li]))
    /\ li' = li + 1
    /\ UNCHANGED <<call, pc, err, result, src, temp, temp_info, data, fields>>
    /\ UNCHANGED genVars

M3uReturn ==
    /\ call = "m3u" /\ pc = "m_pairs" /\ li > Len(PairTexts(temp))
    /\ data' = ("streams" :> streams) @@ data
    /\ result' = JsonDumps(data')
    /\ pc' = "returned"
    /\ UNCHANGED <<call, err, src, temp, temp_info, streams, li, fields>>
    /\ UNCHANGED genVars

\* Inputs of m3u_to_json
MaxHdrVal == 2

MaxBodyLines == 5

MaxSegs == 2

RECURSIVE JoinWith(_, _)
JoinWith(ss, sep) ==
    IF ss = <<>> THEN <<>>
    ELSE IF Len(ss) = 1 THEN ss[1]
    ELSE ss[1] \o <<sep>> \o JoinWith(Tail(ss), sep)

HdrPrefix == <<"#EXTM3U", " url-tvg=", Q>>

HdrSep == <<Q, " x-tvg-url=", Q>>

HeaderLine(A, B) == HdrPrefix \o A \o HdrSep \o B \o <<Q>>

HdrVals == SeqsUpTo({Q, " x-tvg-url=", "u"}, MaxHdrVal)

DropAt(s, i) == SubSeq(s, 1, i - 1) \o SubSeq(s, i + 1, Len(s))

\* header lines: of the documented form, the same inside other text, and
\* with one token missing
HeaderLines ==
    {HeaderLine(A, B) : A \in HdrVals, B \in HdrVals}
    \cup {<<"u">> \o HeaderLine(A, <<"w">>) \o <<"u">> : A \in SeqsUpTo({Q, "u"}, 1)}
    \cup UNION {{DropAt(HeaderLine(A, B), i) : i \in 1..Len(HeaderLine(A, B))} :
                   A \in SeqsUpTo({Q, "u"}, 1), B \in SeqsUpTo({Q, "u"}, 1)}
    \cup {<<>>, <<"#EXTM3U">>}

StreamUrl1 == <<"http://", "1", ".", "1", ".", "0", ".", "1", ":", "1", "0", "/stream/", "one">>

StreamUrl2 == <<"http://", "1", "0", ".", "0", ".", "0", ".", "1", ":", "1", "/stream/", "two", ",", "w">>

\* a URL that is not of the stream form, and one with a comma in it
OtherUrl == <<"https://host/live">>

OtherUrlComma == <<"https://host/live", ",", "w">>

Meta1 == <<"#EXTINF:", "0", " ", "tvg-id=", Q, "bbc.uk", Q, ",", "One">>

Meta2 == <<"#EXTINF:", "1", " ", "tvg-name=", Q, "CNN", Q, ",", "Two">>

SmallLines == {Meta1, Meta2, StreamUrl1, OtherUrl}

KeyLit(k) ==
    CASE k = "ext_inf" -> "#EXTINF:"
      [] k = "channelID" -> "channelID="
      [] k = "tvg_chno" -> "tvg-chno="
      [] k = "tvg_name" -> "tvg-name="
      [] k = "tvg_id" -> "tvg-id="
      [] k = "tvg_logo" -> "tvg-logo="
      [] k = "group_title" -> "group-title="

Seg(k, v) == [key |-> k, val |-> v]

\* the duration marker with the durations 0, 10 and -1, and the six quoted
\* attributes, tvg-name also with a comma in its value and tvg-id also empty
Segs ==
    {Seg("ext_inf", v) : v \in {<<"0">>, <<"1", "0">>, <<"-", "1">>}}
    \cup {Seg("channelID", <<"cid">>), Seg("tvg_chno", <<"1", "0", "1">>),
          Seg("tvg_name", <<"BBC">>), Seg("tvg_name", <<"BBC", ",", "One">>),
          Seg("tvg_id", <<"bbc.uk">>), Seg("tvg_id", <<>>),
          Seg("tvg_logo", <<"http://x/logo.png">>),
          Seg("group_title", <<"News">>)}

DistinctKeys(ss) == \A i, j \in 1..Len(ss) : i # j => ss[i].key # ss[j].key

AllSegs ==
    <<Seg("ext_inf", <<"0">>), Seg("channelID", <<"cid">>),
      Seg("tvg_chno", <<"1", "0", "1">>), Seg("tvg_name", <<"BBC">>),
      Seg("tvg_id", <<"bbc.uk">>), Seg("tvg_logo", <<"http://x/logo.png">>),
      Seg("group_title", <<"News">>)>>

Reverse(s) == [i \in 1..Len(s) |-> s[Len(s) + 1 - i]]

SegSeqs ==
    {ss \in SeqsUpTo(Segs, MaxSegs) : DistinctKeys(ss)}
    \cup {AllSegs, Reverse(AllSegs), <<Seg("ext_inf", <<"-", "1">>)>> \o Tail(AllSegs)}

\* the comma-name: none, a name, a name with a comma in it, a comma and no name
Names == {None, <<"One">>, <<"News", ",", " ", "Live">>, <<>>}

UrlLines == {StreamUrl1, StreamUrl2, OtherUrl, OtherUrlComma}

RenderSeg(sg) ==
    IF sg.key = "ext_inf" THEN <<KeyLit(sg.key)>> \o sg.val
    ELSE <<KeyLit(sg.key), Q>> \o sg.val \o <<Q>>

\* the metadata line: duration and attributes separated by spaces, then the
\* comma and the name
MetaLine(segs, name) ==
    JoinWith([i \in 1..Len(segs) |-> RenderSeg(segs[i])], " ")
    \o (IF name = None THEN <<>> ELSE <<",">> \o name)

PlainHeader == HeaderLine(<<"http://a/tvg.xml">>, <<"http://a/x">>)

SmallBodies == {<<>>, <<Meta1, StreamUrl1>>, <<Meta2>>}

\* the source texts: every header line over a few bodies; two header lines
\* over every body of up to MaxBodyLines lines; a well-formed header over
\* one line pair written from fields
InitM3u ==
    /\ call = "m3u" /\ pc = "m_start" /\ err = "" /\ result = None
    /\ channels = <<>> /\ programs = <<>> /\ url = None
    /\ xml_header = <<>> /\ xml_channels = <<>> /\ xml_programs = <<>>
    /\ ci = 0 /\ pi = 0
    /\ temp = <<>> /\ temp_info = <<>> /\ data = <<>> /\ streams = <<>> /\ li = 0
    /\ \/ /\ fields = NoFields
          /\ \E h \in HeaderLines, b \in SmallBodies, nl \in {<<>>, <<NL>>} :
               src = JoinWith(<<h>> \o b, NL) \o nl
       \/ /\ fields = NoFields
          /\ \E h \in {PlainHeader, <<"#EXTM3U">>}, b \in SeqsUpTo(SmallLines, MaxBodyLines) :
               src = JoinWith(<<h>> \o b, NL)
       \/ /\ fields \in [segs : SegSeqs, name : Names, url : UrlLines, written : {TRUE}]
          /\ src = JoinWith(<<PlainHeader, MetaLine(fields.segs, fields.name), fields.url>>, NL)

NextM3u == M3uSplit \/ M3uHeader \/ M3uPair \/ M3uReturn

----------------------------------------------------------------------------
(* Properties of gen_xmltv_xml                                             *)

IsWS(t) == t \in {NL, "    ", "        "}

StripWS(s) == SelectSeq(s, LAMBDA t : ~IsWS(t))

\* the programme element of the specification, tag by tag
ProgrammeElement(p) ==
    <<"<programme channel=\"", p[1], "\" start=\"", p[3], "\" stop=\"", p[4], "\">",
      "<title lang=\"en\">", p[2], "</title>",
      "<desc lang=\"en\">", p[5], "</desc>",
      "</programme>">>

\* the channel element of the specification, tag by tag
ChannelElement(c) ==
    <<"<channel id=\"", c[1], "\">",
      "<display-name>", c[2], "</display-name>",
      "<icon src=\"", c[3], "\"/>",
      "</channel>">>

\* C1: apart from whitespace, the text emitted for the program records
\* processed so far is exactly the programme elements built from the first
\* five fields of each, one after the other, and nothing else.
C1_ProgrammeTextExact ==
    (call = "gen" /\ pi >= 1)
        => StripWS(xml_programs)
             = Concat([i \in 1..(pi - 1) |-> ProgrammeElement(programs[i])])

\* C2 as stated: gen_xmltv_xml raises no error, whatever the arity of the
\* records.
C2_NeverRaises == call = "gen" => pc # "raised"

ArityOK ==
    /\ \A i \in 1..Len(channels) : Len(channels[i]) = 4
    /\ \A i \in 1..Len(programs) : Len(programs[i]) \in {5, 6}

\* C2 amended: the call raises exactly when some record has an undocumented
\* arity (a channel without 4 fields, a program without 5 or 6): with all
\* arities as documented it never raises and runs on until it has returned a
\* document; otherwise it never returns one.
C2_RaisesIffBadArity ==
    call = "gen" =>
        /\ ArityOK => (pc # "raised" /\ (pc # "returned" => ENABLED NextGen))
        /\ ~ArityOK => (pc # "returned" /\ result = None
                          /\ (pc # "raised" => ENABLED NextGen))
        /\ pc = "raised" => err = "ValueError"
        /\ pc = "returned" => result # None

C2_Witness ==
    /\ call = "gen" /\ pc = "raised"
    /\ ci = Len(channels) + 1 /\ Len(channels) >= 1
    /\ pi = 2 /\ Len(programs[2]) = 7

\* the part of the returned document between the channel elements and </tv>
ProgramPart(R) ==
    LET lo == Len(StripWS(xml_header))
              + Len(Concat([i \in 1..Len(channels) |-> ChannelElement(channels[i])]))
    IN  SubSeq(R, lo + 1, Len(R) - 1)

\* C6: the returned document is, whitespace apart: the prolog, the DOCTYPE
\* and the opening tv tag; one channel element per channel record in input
\* order, with display-name and icon and without the fourth field; then one
\* programme element per program record in input order, none of them before
\* a channel element; then the closing tv tag.
C6_DocumentOrder ==
    (call = "gen" /\ pc = "returned") =>
        LET R == StripWS(result)
            H == StripWS(xml_header)
            C == Concat([i \in 1..Len(channels) |-> ChannelElement(channels[i])])
            P == ProgramPart(R)
            opens == Positions(P, "<programme channel=\"")
            closes == Positions(P, "</programme>")
        IN  /\ Len(R) >= Len(H) + Len(C) + 1
            /\ SubSeq(H, 1, 3)
                 = <<"<?xml version=\"1.0\" encoding=\"utf-8\" ?>",
                     "<!DOCTYPE tv SYSTEM \"xmltv.dtd\">",
                     "<tv generator-info-name=\"IPTV\" generator-info-url=\"">>
            /\ H[Len(H)] = "\">"
            /\ SubSeq(R, 1, Len(H)) = H
            /\ SubSeq(R, Len(H) + 1, Len(H) + Len(C)) = C
            /\ R[Len(R)] = "</tv>"
            /\ \A i \in 1..Len(channels) : channels[i][4] \notin Range(R)
            /\ "<channel id=\"" \notin Range(P)
            /\ "</channel>" \notin Range(P)
            /\ Len(opens) = Len(programs)
            /\ Len(closes) = Len(programs)
            /\ \A k \in 1..Len(programs) :
                 /\ opens[k] < closes[k]
                 /\ k < Len(programs) => closes[k] < opens[k + 1]
                 /\ SubSeq(P, opens[k], opens[k] + 6)
                      = SubSeq(ProgrammeElement(programs[k]), 1, 7)
                 /\ \E t \in opens[k]..closes[k] :
                      /\ P[t] = "<title lang=\"en\">"
                      /\ P[t + 1] = programs[k][2]
                 /\ \E t \in opens[k]..closes[k] :
                      /\ P[t] = "<desc lang=\"en\">"
                      /\ P[t + 1] = programs[k][5]

C6_Witness ==
    /\ call = "gen" /\ pc = "returned"
    /\ Len(channels) = 2 /\ channels[1] # channels[2]
    /\ Len(programs) = 2 /\ Len(programs[1]) = 6 /\ Len(programs[2]) = 5

----------------------------------------------------------------------------
(* Properties of m3u_to_json                                               *)

\* the lines of a text, read off its line breaks
NumLines(text) ==
    IF text = <<>> THEN 0
    ELSE Len(Positions(text, NL)) + (IF text[Len(text)] = NL THEN 0 ELSE 1)

LineAt(text, k) ==
    LET brk == Positions(text, NL)
        lo == IF k = 1 THEN 1 ELSE brk[k - 1] + 1
        hi == IF k <= Len(brk) THEN brk[k] - 1 ELSE Len(text)
    IN  SubSeq(text, lo, hi)

Contains(s, sub) ==
    \E j \in 1..(Len(s) - Len(sub) + 1) : SubSeq(s, j, j + Len(sub) - 1) = sub

\* the header pattern occurs in the line: #EXTM3U url-tvg=" ... then
\* " x-tvg-url=" ... then a closing quote
HeaderMatches(line) ==
    \E p \in 1..Len(line), i \in 1..Len(line), e \in 1..Len(line) :
        /\ p + 3 <= i /\ i + 3 <= e
        /\ SubSeq(line, p, p + 2) = HdrPrefix
        /\ SubSeq(line, i, i + 2) = HdrSep
        /\ line[e] = Q

HasHeader == NumLines(src) >= 1 /\ HeaderMatches(LineAt(src, 1))

\* C4: m3u_to_json raises exactly when the first line of the source text
\* does not match the header pattern: then it stops at the header, with no
\* stream entry built and nothing returned; with a matching first line it
\* never raises, goes on to the line pairs, whose loop index never passes
\* the number of pairs by more than one, and returns a document, whatever
\* the body holds.
C4_RaisesIffHeaderMismatch ==
    call = "m3u" =>
        /\ HasHeader => pc \in {"m_start", "m_header", "m_pairs", "returned"}
        /\ pc = "m_pairs" => li \in 1..(Len(PairTexts(temp)) + 1)
        /\ ~HasHeader => /\ pc \in {"m_start", "m_header", "raised"}
                         /\ result = None /\ streams = <<>> /\ li = 0
        /\ pc = "raised" => /\ result = None /\ streams = <<>> /\ li = 0
                            /\ DOMAIN data = {}
        /\ pc = "returned" =>
              /\ result # None
              /\ DOMAIN result[2] = {"url_tvg", "x_tvg_url", "streams"}

C4_Witness ==
    /\ call = "m3u" /\ pc = "raised" /\ err = "AttributeError"
    /\ NumLines(src) >= 3
    /\ Contains(LineAt(src, 1), HdrSep)

\* C5: for a body of B lines the returned streams hold B \div 2 entries, the
\* i-th being the entry of body lines 2i-1 and 2i (lines 2i and 2i+1 of the
\* source text) and of no other line, in source order; an odd last line
\* gives no entry and no error.
C5_PairsInOrder ==
    /\ (call = "m3u" /\ pc = "m_pairs") => Len(streams) = li - 1
    /\ (call = "m3u" /\ pc = "returned") =>
          LET B == NumLines(src) - 1
              S == result[2].streams
          IN  /\ Len(S) = B \div 2
              /\ \A i \in 1..Len(S) :
                    S[i] = StreamEntry(LineAt(src, 2 * i) \o <<NL>>
                                         \o LineAt(src, 2 * i + 1))

C5_Witness ==
    /\ call = "m3u" /\ pc = "returned"
    /\ NumLines(src) = 6
    /\ Len(streams) = 2
    /\ DOMAIN streams[1] # DOMAIN streams[2]

\* the places where the first line splits as
\* #EXTM3U url-tvg="A" x-tvg-url="B"
HeaderSplits(line) ==
    {i \in 4..(Len(line) - 3) :
        /\ SubSeq(line, 1, 3) = HdrPrefix
        /\ SubSeq(line, i, i + 2) = HdrSep
        /\ line[Len(line)] = Q}

HeaderA(line, i) == SubSeq(line, 4, i - 1)

HeaderB(line, i) == SubSeq(line, i + 3, Len(line) - 1)

\* C7 as stated: whenever the first line is #EXTM3U url-tvg="A" x-tvg-url="B",
\* for any A and B, the document has url_tvg = A and x_tvg_url = B.
C7_HeaderVerbatimAnyValues ==
    (call = "m3u" /\ pc \in {"m_pairs", "returned"}) =>
        LET line == LineAt(src, 1)
        IN  \A i \in HeaderSplits(line) :
                /\ data.url_tvg = HeaderA(line, i)
                /\ data.x_tvg_url = HeaderB(line, i)

\* C7 amended: whenever the first line is #EXTM3U url-tvg="A" x-tvg-url="B"
\* and the text "B (B after its opening quote) does not contain
\* " x-tvg-url=", the document has url_tvg = A and x_tvg_url = B, from the
\* header match on, whatever the body lines are.
C7_HeaderVerbatim ==
    (call = "m3u" /\ pc \in {"m_pairs", "returned"}) =>
        LET line == LineAt(src, 1)
        IN  \A i \in HeaderSplits(line) :
                ~Contains(<<Q>> \o HeaderB(line, i), HdrSep) =>
                    /\ data.url_tvg = HeaderA(line, i)
                    /\ data.x_tvg_url = HeaderB(line, i)
                    /\ pc = "returned" =>
                          /\ result[2].url_tvg = HeaderA(line, i)
                          /\ result[2].x_tvg_url = HeaderB(line, i)

C7_Witness ==
    /\ call = "m3u" /\ pc = "returned"
    /\ Len(streams) = 1
    /\ \E i \in HeaderSplits(LineAt(src, 1)) :
          /\ ~Contains(<<Q>> \o HeaderB(LineAt(src, 1), i), HdrSep)
          /\ Contains(HeaderA(LineAt(src, 1), i), <<Q, " x-tvg-url=">>)
          /\ HeaderB(LineAt(src, 1), i) = <<"u", Q>>

SegKeys == {"ext_inf"} \cup {AttrKeys[i].key : i \in 1..Len(AttrKeys)}

IsStreamUrl(line) == line # <<>> /\ line[1] = "http://"

\* C3: the entry of a line pair has a key exactly when the pair carries the
\* field, with the field's value, and no key holds an empty value.
C3_KeyIffFieldPresent ==
    (call = "m3u" /\ pc = "returned" /\ fields.written) =>
        LET e == streams[1]
        IN  /\ \A n \in 1..Len(fields.segs) :
                 fields.segs[n].val # <<>> =>
                    /\ fields.segs[n].key \in DOMAIN e
                    /\ e[fields.segs[n].key] = fields.segs[n].val
            /\ \A k \in SegKeys \cap DOMAIN e :
                 \E n \in 1..Len(fields.segs) :
                    fields.segs[n].key = k /\ fields.segs[n].val # <<>>
            /\ "stream_url" \in DOMAIN e <=> IsStreamUrl(fields.url)
            /\ IsStreamUrl(fields.url) => e.stream_url = fields.url
            /\ fields.name \notin {None, <<>>} => "chan_name" \in DOMAIN e
            /\ \A k \in DOMAIN e : e[k] # <<>>

\* C9: a metadata line that begins #EXTINF:<n> gives an entry whose ext_inf
\* is n, for the durations 0, 10 and -1 alike.
C9_DurationPassedThrough ==
    (call = "m3u" /\ pc = "returned" /\ fields.written
       /\ fields.segs # <<>> /\ fields.segs[1].key = "ext_inf") =>
            /\ "ext_inf" \in DOMAIN streams[1]
            /\ streams[1].ext_inf = fields.segs[1].val

\* the text after the first comma of a line that is outside the double
\* quotes, empty when there is none
AfterFirstComma(line) ==
    LET outside == {p \in 1..Len(line) :
                      /\ line[p] = ","
                      /\ Len(Positions(SubSeq(line, 1, p - 1), Q)) % 2 = 0}
    IN  IF outside = {} THEN <<>>
        ELSE LET p == CHOOSE q \in outside : \A r \in outside : q <= r
             IN  SubSeq(line, p + 1, Len(line))

AfterLastComma(line) ==
    LET commas == Positions(line, ",")
    IN  IF commas = <<>> THEN <<>>
        ELSE SubSeq(line, commas[Len(commas)] + 1, Len(line))

\* C8 as stated: chan_name is the text after the last comma of the metadata
\* line, whatever the URL line holds.
C8_AfterLastComma ==
    (call = "m3u" /\ pc = "returned" /\ fields.written) =>
        LET rest == AfterLastComma(LineAt(src, 2))
        IN  rest # <<>> =>
               /\ "chan_name" \in DOMAIN streams[1]
               /\ streams[1].chan_name = rest

\* C8 amended: for a metadata line made of the duration marker and quoted
\* attributes followed by the comma and the name, chan_name is the whole
\* text after the first comma outside the quoted values, commas of the name
\* included, and there is no chan_name when that text is empty; but a comma
\* in a URL line that is not a stream URL replaces it by the text after
\* that comma.
C8_AfterFirstComma ==
    (call = "m3u" /\ pc = "returned" /\ fields.written) =>
        LET metaRest == AfterFirstComma(LineAt(src, 2))
            urlRest == IF IsStreamUrl(LineAt(src, 3)) THEN <<>>
                       ELSE AfterFirstComma(LineAt(src, 3))
            expected == IF urlRest # <<>> THEN urlRest ELSE metaRest
        IN  IF expected = <<>> THEN "chan_name" \notin DOMAIN streams[1]
            ELSE /\ "chan_name" \in DOMAIN streams[1]
                 /\ streams[1].chan_name = expected

C8_Witness ==
    /\ call = "m3u" /\ pc = "returned" /\ fields.written
    /\ fields.name = <<"News", ",", " ", "Live">>
    /\ \E n \in 1..Len(fields.segs) : "," \in Range(fields.segs[n].val)
    /\ fields.url = StreamUrl2
    /\ streams[1].chan_name = fields.name

Permute(s, p) == [i \in 1..Len(s) |-> s[p[i]]]

\* the comma and the name as one more part of the metadata line
NamePart(name) == <<",">> \o name

\* C10 as stated: moving the duration marker, the quoted attributes and the
\* comma-name to other positions of the metadata line leaves the entry as
\* it was.
C10_AnyFieldOrder ==
    (call = "m3u" /\ pc = "returned" /\ fields.written
       /\ fields.name \notin {None, <<>>}
       /\ fields.segs # <<>> /\ Len(fields.segs) <= MaxSegs
       /\ \A n \in 1..Len(fields.segs) : fields.segs[n].val # <<>>) =>
        LET parts == [n \in 1..Len(fields.segs) |-> RenderSeg(fields.segs[n])] \o <<NamePart(fields.name)>>
        IN  \A p \in Permutations(1..Len(parts)) :
               StreamEntry(JoinWith(Permute(parts, p), " ") \o <<NL>> \o fields.url)
                 = streams[1]

\* C10 amended: with the comma-name last on the metadata line and the URL
\* on the second line, the duration marker and the quoted attributes in any
\* other order among themselves give the same entry.
C10_AttributeOrder ==
    (call = "m3u" /\ pc = "returned" /\ fields.written) =>
        /\ Len(fields.segs) <= MaxSegs =>
             \A p \in Permutations(1..Len(fields.segs)) :
                StreamEntry(MetaLine(Permute(fields.segs, p), fields.name)
                              \o <<NL>> \o fields.url) = streams[1]
        /\ StreamEntry(MetaLine(Reverse(fields.segs), fields.name)
                         \o <<NL>> \o fields.url) = streams[1]

C10_Witness ==
    /\ call = "m3u" /\ pc = "returned" /\ fields.written
    /\ fields.segs = Reverse(AllSegs)
    /\ fields.name = <<"One">>
    /\ fields.url = StreamUrl1
    /\ Cardinality(DOMAIN streams[1]) = 9

SpecM3u == InitM3u /\ [][NextM3u]_vars

Init == InitGen \/ InitM3u

Next == NextGen \/ NextM3u

Spec == Init /\ [][Next]_vars

====
